---- MODULE Spec2Model ----
(***************************************************************************)
(* Model of TradeAllocationSimulation (src/TradeAllocationSimulation.py).  *)
(*                                                                         *)
(* A DataFrame is a sequence of rows; a row is a record whose fields are   *)
(* the columns.  to_dict('records') turns each row of a group into a dict: *)
(* a list element is [id |-> the DataFrame index of the row it was made    *)
(* from, v |-> the dict].  Python's == and `in` on dicts look at v only.   *)
(* Timestamps and timedeltas are integers, in seconds.                     *)
(***************************************************************************)
EXTENDS Integers, Sequences, FiniteSets, TLC

VARIABLES
    data,               \* self.data: the loaded DataFrame
    strategy,           \* self.strategy
    use_buffer,         \* self.use_buffer
    buffer_threshold,   \* self.buffer_threshold (timedelta, seconds)
    pc,                 \* position of the running call
    caller,             \* which method was called: simulate_allocation or get_summary
    allocated_trades,   \* local list of simulate_allocation
    unallocated_trades, \* local list of simulate_allocation
    key,                \* the key of the group being processed (the _ of line 55)
    grouped,            \* the keys of the groups the loop of line 55 has not visited yet
    buffer,             \* local list of the bucket being processed
    message_count,      \* local counter of the bucket being processed
    cat,                \* position of the inner loop in trade_limits.items()
    result,             \* what the last call returned or raised (a frame holds unallocated_trades)
    prev                \* allocated/unallocated lists of the run before the last one

vars == <<data, strategy, use_buffer, buffer_threshold, pc, caller, allocated_trades,
          unallocated_trades, key, grouped, buffer, message_count, cat, result, prev>>

----------------------------------------------------------------------------
(* Bounds of the model and the input domains.                              *)

\* a dataset holds, of every interval length, no row, a few rows or many rows
Few == 13
Many == 60
Counts == {0, Few, Many}

\* ProductTimeDiffMinutes of a row (45 is not a recognized length), in the order
\* in which the rows of the dataset are laid out
IntervalLengths == <<45, 15, 30, 60>>
\* the rows of one interval length follow one another, or the lengths alternate
Arrangements == {"blocks", "interleaved"}
\* the transaction time (seconds), QuantityMWh and delivery lead (seconds) of the
\* j-th row of an interval length cycle with j: of 60 rows 50 are in minute 0 and
\* 10 in minute 1, in both minutes the leads are on both sides of 60 minutes, and
\* the rows j and j + 12 are equal in every field
TransactionTimes == <<0, 30, 0, 59, 30, 60>>
Volumes == <<5, 50, 20, 35>>
Leads == <<3600, 3601, -3600, 60, -3601, 3600, 3600, 3601, -3600, 60, -3601, 3660>>
\* the two documented strategies and one more value: the constructor stores any string
Strategies == {"FirstArrive", "MaxMW", "MinMW"}
ThresholdMinutes == {60}

Cycle(s, i) == s[((i - 1) % Len(s)) + 1]

----------------------------------------------------------------------------
(* __init__ and _load_data                                                 *)

HourlyLimit == 48
HalfHourlyLimit == 96
QuarterHourlyLimit == 192

\* faulty variant: the categories in the opposite order
trade_limits_Reversed ==
    << [product_type |-> "QuarterHourly", limit |-> QuarterHourlyLimit],
       [product_type |-> "HalfHourly", limit |-> HalfHourlyLimit],
       [product_type |-> "Hourly", limit |-> HourlyLimit] >>

\* lines 22-26: the dict, in insertion order
trade_limits ==
    << [product_type |-> "Hourly", limit |-> HourlyLimit],
       [product_type |-> "HalfHourly", limit |-> HalfHourlyLimit],
       [product_type |-> "QuarterHourly", limit |-> QuarterHourlyLimit] >>

max_messages_per_minute == 60

\* timedelta(minutes=m), in seconds
timedelta(m) == m * 60

\* faulty variant: a default category for the interval lengths the dict does not hold
ProductCategoryMap_Default(diff) ==
    CASE diff = 15 -> "QuarterHourly"
      [] diff = 30 -> "HalfHourly"
      [] OTHER -> "Hourly"

\* Series.map with the dict of line 38: a key that is missing maps to NaN
ProductCategoryMap(diff) ==
    CASE diff = 15 -> "QuarterHourly"
      [] diff = 30 -> "HalfHourly"
      [] diff = 60 -> "Hourly"
      [] OTHER -> "NaN"

\* one raw row of the dataset: the j-th row of interval length d
RawRow(d, j) ==
    [ TransactionTime_parsed |-> Cycle(TransactionTimes, j),
      ProductFromUTC         |-> Cycle(TransactionTimes, j) + Cycle(Leads, j),
      ProductTimeDiffMinutes |-> d,
      QuantityMWh            |-> Cycle(Volumes, j) ]

\* the rows number j of the interval lengths that have that many rows
Round(n, j) ==
    LET ds == SelectSeq(IntervalLengths, LAMBDA d : n[d] >= j)
    IN  [x \in 1..Len(ds) |-> RawRow(ds[x], j)]

RECURSIVE Rounds(_, _, _)
Rounds(n, lo, hi) ==
    IF lo > hi THEN <<>>
    ELSE IF lo = hi THEN Round(n, lo)
    ELSE LET mid == (lo + hi) \div 2
         IN  Rounds(n, lo, mid) \o Rounds(n, mid + 1, hi)

RowsOfLength(n, d) == [j \in 1..n[d] |-> RawRow(d, j)]

\* the frame the dataset yields: n[d] rows of every interval length d
RawData(n, arrangement) ==
    IF arrangement = "interleaved"
    THEN Rounds(n, 1, CHOOSE c \in Counts : \A d \in DOMAIN n : n[d] <= c)
    ELSE RowsOfLength(n, IntervalLengths[1]) \o RowsOfLength(n, IntervalLengths[2])
            \o RowsOfLength(n, IntervalLengths[3]) \o RowsOfLength(n, IntervalLengths[4])

\* _load_data: the frame with the derived ProductCategory column
LoadRow(r) == r @@ ("ProductCategory" :> ProductCategoryMap(r.ProductTimeDiffMinutes))

_load_data(raw) == [i \in 1..Len(raw) |-> LoadRow(raw[i])]

Range(s) == {s[x] : x \in 1..Len(s)}

Datasets ==
    {RawData(n, arrangement) : n \in [Range(IntervalLengths) -> Counts], arrangement \in Arrangements}

\* no group has been visited yet
NoKey == -1

Init ==
    /\ \E raw \in Datasets : data = _load_data(raw)
    /\ strategy \in Strategies
    /\ use_buffer \in BOOLEAN
    /\ \E m \in ThresholdMinutes : buffer_threshold = timedelta(m)
    /\ pc = "idle"
    /\ caller = "none"
    /\ allocated_trades = <<>>
    /\ unallocated_trades = <<>>
    /\ key = NoKey
    /\ grouped = <<>>
    /\ buffer = <<>>
    /\ message_count = 0
    /\ cat = 0
    /\ result = [kind |-> "none"]
    /\ prev = [kind |-> "none"]

----------------------------------------------------------------------------
(* simulate_allocation                                                     *)

\* Series.dt.floor('T')
FloorT(t) == (t \div 60) * 60

Abs(x) == IF x < 0 THEN -x ELSE x

\* faulty variant: the floored time overwrites the transaction time as well
WithMinute_Truncate(r) ==
    ("Minute" :> FloorT(r.TransactionTime_parsed))
        @@ [r EXCEPT !.TransactionTime_parsed = FloorT(r.TransactionTime_parsed)]

\* line 52: self.data['Minute'] = ...
WithMinute(r) == ("Minute" :> FloorT(r.TransactionTime_parsed)) @@ r

SetMinute(df) == [i \in 1..Len(df) |-> WithMinute(df[i])]

RECURSIVE SortedKeys(_)
SortedKeys(S) ==
    IF S = {} THEN <<>>
    ELSE LET m == CHOOSE x \in S : \A y \in S : x <= y
         IN  <<m>> \o SortedKeys(S \ {m})

\* line 53: DataFrame.groupby('Minute'): one group per key, the keys ascending
groupby(df) == SortedKeys({df[i].Minute : i \in 1..Len(df)})

\* the row indexes of a frame whose Minute is k, in frame order
GroupIndexes(df, k) == SelectSeq([i \in 1..Len(df) |-> i], LAMBDA i : df[i].Minute = k)

\* the group of key k: a new frame that keeps the index labels and the row order;
\* to_dict('records') (lines 62, 64) makes one dict of every row
to_dict(df, k) ==
    LET idx == GroupIndexes(df, k)
    IN  [j \in 1..Len(idx) |-> [id |-> idx[j], v |-> df[idx[j]]]]

\* line 61: group['Urgency'] = ... on the group, a frame of its own
WithUrgency(t) ==
    [t EXCEPT !.v = ("Urgency" :> Abs(t.v.ProductFromUTC - t.v.TransactionTime_parsed)) @@ t.v]

\* faulty variant: a strict comparison in the buffering filter
Urgent_Strict(t) == t.v.Urgency < buffer_threshold

\* line 62: the boolean mask of the buffering filter
Urgent(t) == t.v.Urgency <= buffer_threshold

\* lines 60-64
FillBuffer(group) ==
    IF use_buffer
    THEN SelectSeq([j \in 1..Len(group) |-> WithUrgency(group[j])], Urgent)
    ELSE group

\* faulty variant: the sort key without its sign, an ascending sort
MaxMWKey_Ascending(t) == t.v.QuantityMWh

\* the sort key of line 68
MaxMWKey(t) == -t.v.QuantityMWh

\* sorted() is stable: the keys ascend, and the elements of one key keep their order
RECURSIVE SortedByKeys(_, _)
SortedByKeys(s, keys) ==
    IF keys = <<>> THEN <<>>
    ELSE SelectSeq(s, LAMBDA t : MaxMWKey(t) = Head(keys)) \o SortedByKeys(s, Tail(keys))

\* faulty variant: an unstable sort, the elements of one key come out last first
sorted_LastFirst(s) ==
    LET r == [j \in 1..Len(s) |-> s[Len(s) + 1 - j]]
    IN  SortedByKeys(r, SortedKeys({MaxMWKey(s[j]) : j \in 1..Len(s)}))

sorted(s) == SortedByKeys(s, SortedKeys({MaxMWKey(s[j]) : j \in 1..Len(s)}))

\* faulty variant: the sort applied whatever the strategy
ApplyStrategy_AlwaysSort(b) == sorted(b)

\* lines 67-68
ApplyStrategy(b) == IF strategy = "MaxMW" THEN sorted(b) ELSE b

Min(a, b) == IF a <= b THEN a ELSE b
Max(a, b) == IF a >= b THEN a ELSE b

\* line 72
product_group(b, product_type) ==
    SelectSeq(b, LAMBDA t : t.v.ProductCategory = product_type)

\* faulty variant: the remaining limit forgets the messages already counted
remaining_limit_Fresh(count) == Max(0, max_messages_per_minute)

\* line 73
remaining_limit(count) == Max(0, max_messages_per_minute - count)

\* faulty variant: the slice forgets the limit of the category
Allocated_NoQuota(pg, limit, count) == SubSeq(pg, 1, Min(Len(pg), remaining_limit(count)))

\* faulty variant: the slice forgets the remaining limit of the minute
Allocated_QuotaOnly(pg, limit, count) == SubSeq(pg, 1, Min(Len(pg), limit))

\* line 76: product_group[:min(limit, remaining_limit)]
Allocated(pg, limit, count) == SubSeq(pg, 1, Min(Len(pg), Min(limit, remaining_limit(count))))

\* faulty variant: the whole product group is reported unallocated
Unallocated_All(pg, allocated) == pg

\* line 77: product_group[len(allocated):]
Unallocated(pg, allocated) == SubSeq(pg, Len(allocated) + 1, Len(pg))

\* `trade in allocated`: list membership compares the dicts
In(t, list) == \E j \in 1..Len(list) : list[j].v = t.v

\* faulty variant: the removal compares the volumes only, not the whole dicts
RemoveAllocated_ByVolume(b, allocated) ==
    SelectSeq(b, LAMBDA t :
        ~\E j \in 1..Len(allocated) : allocated[j].v.QuantityMWh = t.v.QuantityMWh)

\* line 85
RemoveAllocated(b, allocated) == SelectSeq(b, LAMBDA t : ~In(t, allocated))

\* faulty variant: the two lists are kept from one call to the next
Enter_KeepLists(who) ==
    /\ pc \in {"idle", "returned"}
    /\ caller' = who
    /\ prev' = IF result.kind = "none" THEN prev
               ELSE [kind |-> "run", allocated |-> allocated_trades,
                     unallocated |-> unallocated_trades]
    /\ data' = SetMinute(data)
    /\ grouped' = groupby(data')
    /\ pc' = "groups"
    /\ result' = [kind |-> "running"]
    /\ UNCHANGED <<strategy, use_buffer, buffer_threshold, key, buffer, message_count, cat,
                   allocated_trades, unallocated_trades>>

\* a call of simulate_allocation from `who`: lines 48-53
Enter(who) ==
    /\ pc \in {"idle", "returned"}
    /\ caller' = who
    /\ prev' = IF result.kind = "none" THEN prev
               ELSE [kind |-> "run", allocated |-> allocated_trades,
                     unallocated |-> unallocated_trades]
    /\ allocated_trades' = <<>>
    /\ unallocated_trades' = <<>>
    /\ data' = SetMinute(data)
    /\ grouped' = groupby(data')
    /\ pc' = "groups"
    /\ result' = [kind |-> "running"]
    /\ UNCHANGED <<strategy, use_buffer, buffer_threshold, key, buffer, message_count, cat>>

SimulateAllocationCall == Enter("simulate_allocation")

GetSummaryCall == Enter("get_summary")

\* faulty variant: the message counter is carried from one group to the next
NextGroup_KeepCount ==
    /\ pc = "groups"
    /\ grouped # <<>>
    /\ buffer' = ApplyStrategy(FillBuffer(to_dict(data, Head(grouped))))
    /\ message_count' = message_count
    /\ key' = Head(grouped)
    /\ grouped' = Tail(grouped)
    /\ cat' = 1
    /\ pc' = "limits"
    /\ UNCHANGED <<data, strategy, use_buffer, buffer_threshold, caller, allocated_trades,
                   unallocated_trades, result, prev>>

\* lines 55-68: the next group of the outer loop
NextGroup ==
    /\ pc = "groups"
    /\ grouped # <<>>
    /\ buffer' = ApplyStrategy(FillBuffer(to_dict(data, Head(grouped))))
    /\ message_count' = 0
    /\ key' = Head(grouped)
    /\ grouped' = Tail(grouped)
    /\ cat' = 1
    /\ pc' = "limits"
    /\ UNCHANGED <<data, strategy, use_buffer, buffer_threshold, caller, allocated_trades,
                   unallocated_trades, result, prev>>

\* lines 71-85: one iteration of the inner loop
CategoryStep ==
    /\ pc = "limits"
    /\ LET product_type == trade_limits[cat].product_type
           limit == trade_limits[cat].limit
           pg == product_group(buffer, product_type)
           allocated == Allocated(pg, limit, message_count)
           unallocated == Unallocated(pg, allocated)
       IN  /\ allocated_trades' = allocated_trades \o allocated
           /\ unallocated_trades' = unallocated_trades \o unallocated
           /\ message_count' = message_count + Len(allocated)
           /\ buffer' = RemoveAllocated(buffer, allocated)
    /\ IF cat < Len(trade_limits)
       THEN cat' = cat + 1 /\ pc' = "limits"
       ELSE cat' = cat /\ pc' = "groups"
    /\ UNCHANGED <<data, strategy, use_buffer, buffer_threshold, caller, key, grouped, result, prev>>

\* line 88: pd.DataFrame(unallocated_trades)
Return ==
    /\ pc = "groups"
    /\ grouped = <<>>
    /\ IF caller = "get_summary"
       THEN pc' = "summary" /\ result' = result
       ELSE pc' = "returned" /\ result' = [kind |-> "frame"]
    /\ UNCHANGED <<data, strategy, use_buffer, buffer_threshold, caller, allocated_trades,
                   unallocated_trades, key, grouped, buffer, message_count, cat, prev>>

----------------------------------------------------------------------------
(* get_summary                                                             *)

Categories(rows) == {rows[j].v.ProductCategory : j \in 1..Len(rows)} \ {"NaN"}

\* Series.sum(): every value times the number of rows that hold it
RECURSIVE SumOver(_, _)
SumOver(rows, values) ==
    IF values = {} THEN 0
    ELSE LET q == CHOOSE x \in values : TRUE
         IN  q * Len(SelectSeq(rows, LAMBDA t : t.v.QuantityMWh = q))
                 + SumOver(rows, values \ {q})

SumMWh(rows) == SumOver(rows, {rows[j].v.QuantityMWh : j \in 1..Len(rows)})

\* lines 97-102: an empty list makes a frame without columns, and groupby raises KeyError
Summary(rows) ==
    IF rows = <<>>
    THEN [kind |-> "KeyError"]
    ELSE [kind |-> "summary",
          table |-> [c \in Categories(rows) |->
                        LET pg == product_group(rows, c)
                        IN  [UnallocatedMWh |-> SumMWh(pg), UnallocatedTrades |-> Len(pg)]]]

Summarize ==
    /\ pc = "summary"
    /\ result' = Summary(unallocated_trades)
    /\ pc' = "returned"
    /\ UNCHANGED <<data, strategy, use_buffer, buffer_threshold, caller, allocated_trades,
                   unallocated_trades, key, grouped, buffer, message_count, cat, prev>>

Next ==
    \/ SimulateAllocationCall
    \/ GetSummaryCall
    \/ NextGroup
    \/ CategoryStep
    \/ Return
    \/ Summarize

Spec == Init /\ [][Next]_vars

----------------------------------------------------------------------------
(* Vocabulary of the properties.  A bucket is named by its minute; the     *)
(* rows of a bucket are read from the loaded columns, not from the lists.  *)

Recognized == {"Hourly", "HalfHourly", "QuarterHourly"}

Rows == 1..Len(data)

MinuteOf(i) == (data[i].TransactionTime_parsed \div 60) * 60

Buckets == {MinuteOf(i) : i \in Rows}

RowsOfBucket(k) == {i \in Rows : MinuteOf(i) = k}

HasCategory(i, c) ==
    \/ c = "Hourly" /\ data[i].ProductTimeDiffMinutes = 60
    \/ c = "HalfHourly" /\ data[i].ProductTimeDiffMinutes = 30
    \/ c = "QuarterHourly" /\ data[i].ProductTimeDiffMinutes = 15

IsRecognized(i) == data[i].ProductTimeDiffMinutes \in {15, 30, 60}

UrgencyOf(i) ==
    LET d == data[i].ProductFromUTC - data[i].TransactionTime_parsed
    IN  IF d < 0 THEN -d ELSE d

\* the index labels of the elements of a list that belong to bucket k
IdsIn(list, k) == {i \in {list[j].id : j \in 1..Len(list)} : MinuteOf(i) = k}

IdsInOf(list, k, c) ==
    {i \in {list[j].id : j \in 1..Len(list)} : MinuteOf(i) = k /\ HasCategory(i, c)}

\* the volumes of a set of rows
VolumesOf(ids) == {data[i].QuantityMWh : i \in ids}

\* no row occurs twice in a list
NoRowTwice(list) == Cardinality({list[j].id : j \in 1..Len(list)}) = Len(list)

\* the loops of simulate_allocation are over
Finished == pc \in {"summary", "returned"}

----------------------------------------------------------------------------
(* C1, as stated: with buffering disabled, after simulate_allocation the   *)
(* allocated and unallocated trades of every bucket are together exactly   *)
(* the input trades of the bucket, and no trade is in both or there twice. *)
(* Violated: a row of unrecognized interval length is in neither list.     *)
C1_PartitionOfAllInput ==
    (Finished /\ ~use_buffer) =>
        /\ NoRowTwice(allocated_trades \o unallocated_trades)
        /\ \A k \in Buckets :
              IdsIn(allocated_trades, k) \cup IdsIn(unallocated_trades, k) = RowsOfBucket(k)

(* C1, amended: with buffering disabled, after simulate_allocation the     *)
(* allocated and unallocated trades of every bucket are together exactly   *)
(* the input trades of the bucket that have a recognized category, each    *)
(* once; the trades of unrecognized category are in neither list.          *)
C1_PartitionOfRecognized ==
    (Finished /\ ~use_buffer) =>
        /\ NoRowTwice(allocated_trades \o unallocated_trades)
        /\ \A k \in Buckets :
              IdsIn(allocated_trades, k) \cup IdsIn(unallocated_trades, k)
                  = {i \in RowsOfBucket(k) : IsRecognized(i)}

C1_Witness ==
    /\ Finished /\ ~use_buffer
    /\ \E k \in Buckets :
          /\ IdsIn(allocated_trades, k) # {}
          /\ IdsIn(unallocated_trades, k) # {}
          /\ \E i \in RowsOfBucket(k) : ~IsRecognized(i)

(* C2: at every moment, the trades allocated to a bucket over all          *)
(* categories are at most max_messages_per_minute (60), and so is the      *)
(* message counter after every category step.                              *)
C2_GlobalCap ==
    /\ message_count <= 60
    /\ \A k \in Buckets : Cardinality(IdsIn(allocated_trades, k)) <= 60

C2_Witness ==
    /\ pc = "groups" /\ message_count = 60
    /\ Cardinality(IdsIn(allocated_trades, key)) = 60
    /\ IdsIn(unallocated_trades, key) # {}

(* C3: in every bucket, the trades of a category that are allocated are    *)
(* at most the quota of the category: Hourly 48, HalfHourly 96,            *)
(* QuarterHourly 192.                                                      *)
C3_CategoryQuota ==
    \A k \in Buckets :
        /\ Cardinality(IdsInOf(allocated_trades, k, "Hourly")) <= 48
        /\ Cardinality(IdsInOf(allocated_trades, k, "HalfHourly")) <= 96
        /\ Cardinality(IdsInOf(allocated_trades, k, "QuarterHourly")) <= 192

C3_Witness ==
    \E k \in Buckets :
        /\ Cardinality(IdsInOf(allocated_trades, k, "Hourly")) = 48
        /\ IdsInOf(unallocated_trades, k, "Hourly") # {}

\* bucket k holds exactly 50 Hourly and 50 QuarterHourly trades
FiftyFifty(k) ==
    /\ Cardinality(RowsOfBucket(k)) = 100
    /\ Cardinality({i \in RowsOfBucket(k) : HasCategory(i, "Hourly")}) = 50
    /\ Cardinality({i \in RowsOfBucket(k) : HasCategory(i, "QuarterHourly")}) = 50

(* C4, as stated: a bucket of 50 Hourly and 50 QuarterHourly trades,       *)
(* buffering disabled, allocates all 50 Hourly and 10 QuarterHourly trades *)
(* and leaves 40 QuarterHourly and no Hourly trade unallocated.            *)
(* Violated: the Hourly quota of 48 binds before the cap of 60.            *)
C4_FiftyHourlyTenQuarter ==
    \A k \in Buckets :
        (Finished /\ ~use_buffer /\ FiftyFifty(k)) =>
            /\ Cardinality(IdsInOf(allocated_trades, k, "Hourly")) = 50
            /\ Cardinality(IdsInOf(allocated_trades, k, "QuarterHourly")) = 10
            /\ Cardinality(IdsInOf(unallocated_trades, k, "QuarterHourly")) = 40
            /\ IdsInOf(unallocated_trades, k, "Hourly") = {}

(* C4, amended: a bucket of 50 Hourly and 50 QuarterHourly trades,         *)
(* buffering disabled, allocates 48 Hourly and 12 QuarterHourly trades and *)
(* leaves 2 Hourly and 38 QuarterHourly trades unallocated.                *)
C4_HourlyQuotaThenCap ==
    \A k \in Buckets :
        (Finished /\ ~use_buffer /\ FiftyFifty(k)) =>
            /\ Cardinality(IdsInOf(allocated_trades, k, "Hourly")) = 48
            /\ Cardinality(IdsInOf(allocated_trades, k, "QuarterHourly")) = 12
            /\ Cardinality(IdsInOf(unallocated_trades, k, "Hourly")) = 2
            /\ Cardinality(IdsInOf(unallocated_trades, k, "QuarterHourly")) = 38
            /\ IdsIn(allocated_trades, k) \cup IdsIn(unallocated_trades, k) = RowsOfBucket(k)

C4_Witness ==
    /\ Finished /\ ~use_buffer
    /\ \E k \in Buckets : FiftyFifty(k) /\ Cardinality(IdsIn(allocated_trades, k)) = 60

(* C5: with strategy "MaxMW", in every bucket and category every allocated *)
(* trade has a volume at least that of every unallocated trade of the      *)
(* same bucket and category.                                               *)
C5_MaxMWLargestFirst ==
    (strategy = "MaxMW") =>
        \A k \in Buckets : \A c \in Recognized :
            \A a \in VolumesOf(IdsInOf(allocated_trades, k, c)) :
                \A u \in VolumesOf(IdsInOf(unallocated_trades, k, c)) : a >= u

C5_Witness ==
    /\ strategy = "MaxMW" /\ Finished
    /\ \E k \in Buckets : \E c \in Recognized :
          \E a \in IdsInOf(allocated_trades, k, c) :
              \E u \in IdsInOf(unallocated_trades, k, c) :
                  /\ data[a].QuantityMWh > data[u].QuantityMWh
                  /\ a > u

\* the rows of bucket k that pass the buffering filter and have a category
Eligible(k) ==
    {i \in RowsOfBucket(k) : IsRecognized(i) /\ UrgencyOf(i) <= buffer_threshold}

\* the eligible rows of bucket k fit in the Hourly quota and in the cap
EligibleFit(k) ==
    /\ Cardinality({i \in Eligible(k) : HasCategory(i, "Hourly")}) <= 48
    /\ Cardinality(Eligible(k)) <= 60

(* C6: with use_buffer enabled, a trade whose urgency is above             *)
(* buffer_threshold is in neither list and takes no slot (a bucket whose   *)
(* other trades fit in the quotas and the cap leaves none unallocated),    *)
(* and a trade of recognized category whose urgency is at most the         *)
(* threshold, the threshold itself included, is in one of the two lists.   *)
C6_BufferFilter ==
    use_buffer =>
        /\ \A j \in 1..Len(allocated_trades) :
              UrgencyOf(allocated_trades[j].id) <= buffer_threshold
        /\ \A j \in 1..Len(unallocated_trades) :
              UrgencyOf(unallocated_trades[j].id) <= buffer_threshold
        /\ Finished =>
              \A k \in Buckets :
                  /\ IdsIn(allocated_trades, k) \cup IdsIn(unallocated_trades, k) = Eligible(k)
                  /\ EligibleFit(k) => IdsIn(unallocated_trades, k) = {}

C6_Witness ==
    /\ use_buffer /\ Finished
    /\ \E k \in Buckets :
          /\ \E i \in IdsIn(allocated_trades, k) : UrgencyOf(i) = buffer_threshold
          /\ \E i \in RowsOfBucket(k) : IsRecognized(i) /\ UrgencyOf(i) = buffer_threshold + 1
          /\ Cardinality({i \in RowsOfBucket(k) : IsRecognized(i)}) > 60
          /\ EligibleFit(k)
          /\ IdsIn(unallocated_trades, k) = {}

(* C7: get_summary on an empty unallocated list (an empty dataset, or a    *)
(* run that allocated every trade) returns an empty mapping and raises     *)
(* no error.  Violated: the frame of an empty list has no column, and      *)
(* groupby('ProductCategory') raises KeyError.                             *)
C7_EmptySummary ==
    (pc = "returned" /\ caller = "get_summary" /\ unallocated_trades = <<>>) =>
        /\ result.kind = "summary"
        /\ DOMAIN result.table = {}

(* C8: a second run on the same object yields the allocated list and the   *)
(* unallocated list of the run before it.                                  *)
C8_Idempotent ==
    (Finished /\ prev.kind = "run") =>
        /\ allocated_trades = prev.allocated
        /\ unallocated_trades = prev.unallocated

C8_Witness ==
    /\ Finished /\ prev.kind = "run" /\ use_buffer /\ strategy = "MaxMW"
    /\ allocated_trades # <<>>
    /\ unallocated_trades # <<>>

\* message_count is the counter of bucket `key`, of the running or the last call
CounterOfKey == key # NoKey /\ \A g \in 1..Len(grouped) : grouped[g] # key

(* C9: a trade whose interval length is outside {15, 30, 60}, whose        *)
(* category label is therefore no recognized one, is in neither list, and  *)
(* the message counter of a bucket counts the allocated trades of          *)
(* recognized category only.                                               *)
C9_UnrecognizedExcluded ==
    /\ \A j \in 1..Len(allocated_trades) :
          /\ IsRecognized(allocated_trades[j].id)
          /\ allocated_trades[j].v.ProductCategory \in Recognized
    /\ \A j \in 1..Len(unallocated_trades) :
          /\ IsRecognized(unallocated_trades[j].id)
          /\ unallocated_trades[j].v.ProductCategory \in Recognized
    /\ CounterOfKey =>
          message_count = Cardinality({i \in IdsIn(allocated_trades, key) : IsRecognized(i)})

C9_Witness ==
    /\ Finished /\ CounterOfKey /\ message_count > 0
    /\ \E i \in RowsOfBucket(key) : ~IsRecognized(i)
    /\ \E i \in Rows : data[i].ProductCategory = "NaN"

\* a step keeps the rows and the value of every field the data has
FieldsKept ==
    /\ Len(data') = Len(data)
    /\ \A i \in Rows : \A f \in DOMAIN data[i] :
          f \in DOMAIN data'[i] /\ data'[i][f] = data[i][f]

\* a step adds at most the field `column` to the rows of the data
AddsAtMost(column) == \A i \in Rows : DOMAIN data'[i] \subseteq DOMAIN data[i] \cup {column}

(* C10, as stated: no step changes a field of the loaded data or adds a    *)
(* field to it other than the urgency value.                               *)
(* Violated: line 52 adds the Minute column to self.data.                  *)
C10_OnlyUrgencyAdded ==
    [][data' # data => FieldsKept /\ AddsAtMost("Urgency")]_vars

(* C10, amended: no step changes a field of the loaded data; the only      *)
(* field a step adds to it is Minute, the transaction time floored to the  *)
(* minute; the urgency value is never attached to the loaded data.         *)
C10_OnlyMinuteAdded ==
    [][data' # data =>
           /\ FieldsKept
           /\ AddsAtMost("Minute")
           /\ \A i \in Rows : data'[i].Minute = MinuteOf(i)]_vars

C10_Witness ==
    /\ Finished /\ use_buffer
    /\ \E i \in Rows : "Minute" \in DOMAIN data[i] /\ "Urgency" \notin DOMAIN data[i]
    /\ \E j \in 1..Len(allocated_trades) : "Urgency" \in DOMAIN allocated_trades[j].v

\* the rows of category c in a list, over all buckets
IdsOf(list, c) == {i \in {list[j].id : j \in 1..Len(list)} : HasCategory(i, c)}

\* the sum of the volumes of a set of rows: every volume times the rows that hold it
RECURSIVE VolumeTimesRows(_, _)
VolumeTimesRows(ids, qs) ==
    IF qs = {} THEN 0
    ELSE LET q == CHOOSE x \in qs : TRUE
         IN  q * Cardinality({i \in ids : data[i].QuantityMWh = q})
                 + VolumeTimesRows(ids, qs \ {q})

TotalVolume(ids) == VolumeTimesRows(ids, VolumesOf(ids))

\* the mapping the summary is to hold for the unallocated list
ExpectedTable ==
    [c \in {x \in Recognized : IdsOf(unallocated_trades, x) # {}} |->
        [UnallocatedMWh |-> TotalVolume(IdsOf(unallocated_trades, c)),
         UnallocatedTrades |-> Cardinality(IdsOf(unallocated_trades, c))]]

(* C11: when get_summary has returned, the summary maps every category     *)
(* that has an unallocated trade to the sum of the volumes and the number  *)
(* of its unallocated trades, and holds no entry for a category without    *)
(* unallocated trades.  Violated where no category has one (C7): the call  *)
(* raises KeyError instead of returning the empty mapping.                 *)
C11_SummaryPerCategory ==
    (pc = "returned" /\ caller = "get_summary") =>
        /\ result.kind = "summary"
        /\ result.table = ExpectedTable

\* the same where a summary is returned: the mapping is the expected one
SummaryWhenReturned ==
    (pc = "returned" /\ caller = "get_summary" /\ result.kind = "summary") =>
        result.table = ExpectedTable

\* the rows of bucket k the category steps work on: all rows of a recognized
\* category, or with use_buffer those of them that pass the buffering filter
Working(k, c) ==
    {i \in RowsOfBucket(k) :
        HasCategory(i, c) /\ (use_buffer => UrgencyOf(i) <= buffer_threshold)}

Least(a, b) == IF a <= b THEN a ELSE b

AtLeastZero(a) == IF a >= 0 THEN a ELSE 0

NumAllocated(k, c) == Cardinality(IdsInOf(allocated_trades, k, c))

NumUnallocated(k, c) == Cardinality(IdsInOf(unallocated_trades, k, c))

NumWorking(k, c) == Cardinality(Working(k, c))

\* the position of a category in the order Hourly, HalfHourly, QuarterHourly
PositionOf(c) == CASE c = "Hourly" -> 1 [] c = "HalfHourly" -> 2 [] c = "QuarterHourly" -> 3

(* C12: in every bucket the categories are processed in the order Hourly,  *)
(* HalfHourly, QuarterHourly (while a category is being awaited no trade   *)
(* of it or of a later one is in a list for this bucket), and the trades   *)
(* allocated to a category are min(its working-set trades, its quota,      *)
(* max(0, 60 - the trades allocated to the earlier categories)), the rest  *)
(* of its working set being unallocated.                                   *)
C12_GreedyInOrder ==
    /\ pc = "limits" =>
          \A c \in Recognized :
              PositionOf(c) >= cat =>
                  IdsInOf(allocated_trades, key, c) \cup IdsInOf(unallocated_trades, key, c) = {}
    /\ Finished =>
          \A k \in Buckets :
              LET aH == NumAllocated(k, "Hourly")
                  aHH == NumAllocated(k, "HalfHourly")
                  aQ == NumAllocated(k, "QuarterHourly")
              IN  /\ aH = Least(NumWorking(k, "Hourly"), Least(48, AtLeastZero(60)))
                  /\ aHH = Least(NumWorking(k, "HalfHourly"), Least(96, AtLeastZero(60 - aH)))
                  /\ aQ = Least(NumWorking(k, "QuarterHourly"),
                                Least(192, AtLeastZero(60 - aH - aHH)))
                  /\ \A c \in Recognized :
                        NumUnallocated(k, c) = NumWorking(k, c) - NumAllocated(k, c)

C12_Witness ==
    /\ Finished
    /\ \E k \in Buckets :
          /\ NumAllocated(k, "Hourly") = 48 /\ NumUnallocated(k, "Hourly") > 0
          /\ NumAllocated(k, "HalfHourly") = 12 /\ NumUnallocated(k, "HalfHourly") > 0
          /\ NumAllocated(k, "QuarterHourly") = 0 /\ NumUnallocated(k, "QuarterHourly") > 0

\* the elements of a list that belong to bucket k and category c, in list order
InBucketOf(list, k, c) ==
    SelectSeq(list, LAMBDA t : MinuteOf(t.id) = k /\ HasCategory(t.id, c))

\* the index labels ascend along a list: its elements are in arrival (row) order
Ascending(s) == \A j \in 1..(Len(s) - 1) : s[j].id < s[j + 1].id

\* the outcome of bucket k for category c: the allocated trades, then the others
Outcome(k, c) == InBucketOf(allocated_trades, k, c) \o InBucketOf(unallocated_trades, k, c)

(* C13: with a strategy other than "MaxMW", in every bucket and category   *)
(* the allocated trades followed by the unallocated ones are the           *)
(* category's working set in arrival order (the order of the rows), so the *)
(* allocated trades are a prefix of it and no unallocated trade arrived    *)
(* before an allocated one.                                                *)
C13_ArrivalPrefix ==
    (strategy # "MaxMW" /\ Finished) =>
        \A k \in Buckets : \A c \in Recognized :
            /\ Ascending(Outcome(k, c))
            /\ {Outcome(k, c)[j].id : j \in 1..Len(Outcome(k, c))} = Working(k, c)

C13_Witness ==
    /\ strategy = "MinMW"
    /\ Finished
    /\ \E k \in Buckets : \E c \in Recognized :
          LET A == IdsInOf(allocated_trades, k, c)
              U == IdsInOf(unallocated_trades, k, c)
          IN  /\ A # {} /\ U # {}
              /\ \E q \in VolumesOf(U) : \E r \in VolumesOf(A) : q > r

(* C14: with strategy "MaxMW" the sort is stable: in every bucket and      *)
(* category, the trades of one volume are allocated in arrival order and   *)
(* the unallocated ones among them all arrived after the allocated ones.   *)
C14_StableSort ==
    (strategy = "MaxMW" /\ Finished) =>
        \A k \in Buckets : \A c \in Recognized :
            \A q \in VolumesOf(Working(k, c)) :
                Ascending(SelectSeq(Outcome(k, c), LAMBDA t : data[t.id].QuantityMWh = q))

C14_Witness ==
    /\ strategy = "MaxMW"
    /\ Finished
    /\ \E k \in Buckets : \E c \in Recognized :
          \E q \in VolumesOf(IdsInOf(allocated_trades, k, c)) :
              q \in VolumesOf(IdsInOf(unallocated_trades, k, c))

\* the elements of a list that belong to bucket k, in list order
InBucket(list, k) == SelectSeq(list, LAMBDA t : MinuteOf(t.id) = k)

\* the inner loop run on a working set b alone, from category c on, with the
\* counter at count: what it allocates and what it leaves unallocated
RECURSIVE AloneFrom(_, _, _)
AloneFrom(b, count, c) ==
    IF c > Len(trade_limits) THEN [allocated |-> <<>>, unallocated |-> <<>>]
    ELSE LET pg == product_group(b, trade_limits[c].product_type)
             al == Allocated(pg, trade_limits[c].limit, count)
             un == Unallocated(pg, al)
             rest == AloneFrom(RemoveAllocated(b, al), count + Len(al), c + 1)
         IN  [allocated |-> al \o rest.allocated, unallocated |-> un \o rest.unallocated]

\* the working set of bucket k, made from the rows of that bucket only
AloneBuffer(k) == ApplyStrategy(FillBuffer(to_dict(data, k)))

\* bucket k processed on its own, with a fresh counter
Alone(k) == AloneFrom(AloneBuffer(k), 0, 1)

(* C15: buckets are independent: a bucket starts with the counter at zero  *)
(* and a working set made of its own rows, the counter counts the trades   *)
(* allocated from this bucket only, and what is allocated and unallocated  *)
(* from a bucket is what processing this bucket alone (its rows and the    *)
(* configuration, a fresh counter) gives, whatever the other buckets hold  *)
(* and wherever the bucket comes in the processing order.                  *)
C15_BucketsIndependent ==
    /\ pc = "limits" =>
          /\ message_count = Len(InBucket(allocated_trades, key))
          /\ cat = 1 => message_count = 0 /\ buffer = AloneBuffer(key)
    /\ Finished =>
          \A k \in Buckets :
              /\ InBucket(allocated_trades, k) = Alone(k).allocated
              /\ InBucket(unallocated_trades, k) = Alone(k).unallocated

C15_Witness ==
    /\ Finished
    /\ \E k1 \in Buckets : \E k2 \in Buckets :
          /\ k1 < k2
          /\ Len(InBucket(allocated_trades, k1)) + Len(InBucket(allocated_trades, k2))
                 > max_messages_per_minute
          /\ InBucket(unallocated_trades, k1) # <<>>
          /\ InBucket(unallocated_trades, k2) = <<>>

(* C16: with the cap 60 and the quotas 48, 96 and 192 only the Hourly      *)
(* quota can bind: in every bucket the allocated Hourly trades are         *)
(* min(Hourly working set, 48), and an Hourly trade is unallocated only    *)
(* when 48 are allocated; the allocated HalfHourly trades are              *)
(* min(HalfHourly working set, 60 - allocated Hourly) and the allocated    *)
(* QuarterHourly trades min(QuarterHourly working set, 60 - allocated      *)
(* Hourly - allocated HalfHourly), whatever the quotas 96 and 192.         *)
C16_OnlyHourlyQuotaBinds ==
    Finished =>
        \A k \in Buckets :
            LET aH == NumAllocated(k, "Hourly")
                aHH == NumAllocated(k, "HalfHourly")
            IN  /\ aH = Least(NumWorking(k, "Hourly"), 48)
                /\ NumUnallocated(k, "Hourly") > 0 => aH = 48
                /\ aHH = Least(NumWorking(k, "HalfHourly"), 60 - aH)
                /\ NumAllocated(k, "QuarterHourly")
                       = Least(NumWorking(k, "QuarterHourly"), 60 - aH - aHH)

C16_Witness ==
    /\ Finished
    /\ \E k \in Buckets :
          /\ NumAllocated(k, "Hourly") \in 1..47
          /\ NumUnallocated(k, "Hourly") = 0
          /\ NumAllocated(k, "HalfHourly") = 60 - NumAllocated(k, "Hourly")
          /\ NumUnallocated(k, "HalfHourly") > 0
          /\ NumAllocated(k, "QuarterHourly") = 0
          /\ NumUnallocated(k, "QuarterHourly") > 0

\* the number of elements of a list whose dict equals the row v
CopiesIn(list, v) == Len(SelectSeq(list, LAMBDA t : t.v = v))

\* the rows of a recognized category, as values
RecognizedValues == {data[i] : i \in {x \in Rows : IsRecognized(x)}}

(* C17: the allocated trades are removed from the working set by value,    *)
(* yet (a) without buffering, every trade of a recognized category that    *)
(* occurs k times in the data, identical in every field, occurs exactly k  *)
(* times in the allocated and unallocated lists together, and (b) a        *)
(* category that is still to be processed in a bucket finds in the         *)
(* working set exactly its own category's working-set trades: the removal  *)
(* has taken none of them away.                                            *)
C17_ByValueRemovalExact ==
    /\ (Finished /\ ~use_buffer) =>
          \A v \in RecognizedValues :
              CopiesIn(allocated_trades, v) + CopiesIn(unallocated_trades, v)
                  = Cardinality({i \in Rows : data[i] = v})
    /\ pc = "limits" =>
          \A c \in Recognized :
              PositionOf(c) >= cat =>
                  LET pg == product_group(buffer, c)
                  IN  /\ {pg[j].id : j \in 1..Len(pg)} = Working(key, c)
                      /\ Len(pg) = NumWorking(key, c)

C17_Witness ==
    /\ Finished
    /\ ~use_buffer
    /\ \E k \in Buckets :
          /\ {data[i] : i \in IdsInOf(allocated_trades, k, "Hourly")}
                 \cap {data[i] : i \in IdsInOf(unallocated_trades, k, "Hourly")} # {}
          /\ NumAllocated(k, "HalfHourly") > 0
          /\ NumUnallocated(k, "HalfHourly") > 0

====
